---- MODULE Spec2Model ----
(***************************************************************************)
(* Model of the YouTube Music bridge of the backend service                *)
(* (backend/app/routers/ytm_router.py): the credential store (one JSON     *)
(* file), the single-slot session cache (lru_cache), the dispatch pool     *)
(* (ThreadPoolExecutor) and the /ytm route handlers.                       *)
(*                                                                         *)
(* A Python str is a sequence of symbols.  A symbol is either a character  *)
(* that JSON or the header format treats specially (quote, backslash,      *)
(* newline, colon, space, a non-ASCII letter) or an atom standing for a    *)
(* run of plain ASCII characters ("authorization", "a", ...).              *)
(***************************************************************************)
EXTENDS Integers, Sequences, FiniteSets, TLC

\* ------------------------------------------------------------------------
\* Bounds of the model
\* ------------------------------------------------------------------------
\* longest header value drawn for the store round trip
MaxValLen == 2
\* requests that may be suspended on the pool at the same time
MaxInFlight == 1
\* longest upstream result list drawn over every item (one list of tracks longer
\* than every limit is drawn besides)
MaxRows == 1
\* largest history limit drawn (the route accepts 1..200)
MaxLimit == 1
\* most loads of the store counted between two clearings of the cache
MaxReads == 3
\* longest upstream history drawn for validate
MaxHistory == 6
\* requests that may be suspended on the pool at the same time in SpecPool
PoolSlots == 5

\* ------------------------------------------------------------------------
\* Python values, as json.load produces them and json.dump consumes them
\* ------------------------------------------------------------------------
PyNone == [t |-> "none", v |-> <<>>]
PyStr(s) == [t |-> "str", v |-> s]
PyNum(n) == [t |-> "num", v |-> <<n>>]
PyList(a) == [t |-> "list", v |-> a]
\* a dict is its items in insertion order, the keys (strs) pairwise different
PyDict(items) == [t |-> "dict", v |-> items]

\* bool(x) of Python
Truthy(x) ==
    CASE x.t = "none" -> FALSE
      [] x.t = "num" -> x.v # <<0>>
      [] x.t = "bool" -> x.v = <<TRUE>>
      [] OTHER -> x.v # <<>>

IsDict(x) == x.t = "dict"

\* d.get(key) for a dict d: the value, or None when the key is absent
DictGet(d, key) ==
    LET hits == {i \in 1..Len(d.v) : d.v[i][1] = key}
    IN IF hits = {} THEN PyNone ELSE d.v[CHOOSE i \in hits : TRUE][2]

\* d[key] = val while parsing: a repeated key keeps its place, takes the new value
DictSet(items, key, val) ==
    IF \E i \in 1..Len(items) : items[i][1] = key
    THEN [i \in 1..Len(items) |-> IF items[i][1] = key THEN <<key, val>> ELSE items[i]]
    ELSE Append(items, <<key, val>>)

\* ------------------------------------------------------------------------
\* json.dump(data, f, indent=2)  (ensure_ascii is the default, True)
\* ------------------------------------------------------------------------
Quote == "\""
Backslash == "\\"
Newline == "\n"
NonAscii == "é"
Digits == {0, 1, 5}
DigitSym(n) == CASE n = 0 -> "0" [] n = 1 -> "1" [] OTHER -> "5"

\* an encoder that writes a backslash as it is (the fault C10 excludes)
EscapeChar_raw_backslash(c) ==
    CASE c = Quote -> <<Backslash, Quote>>
      [] c = Newline -> <<Backslash, "n">>
      [] c = NonAscii -> <<Backslash, "u", "00e9">>
      [] OTHER -> <<c>>
\* one character of a str, as json writes it inside a string literal
EscapeChar(c) ==
    CASE c = Quote -> <<Backslash, Quote>>
      [] c = Backslash -> <<Backslash, Backslash>>
      [] c = Newline -> <<Backslash, "n">>
      [] c = NonAscii -> <<Backslash, "u", "00e9">>
      [] OTHER -> <<c>>

RECURSIVE EscapeStr(_)
EscapeStr(s) == IF s = <<>> THEN <<>> ELSE EscapeChar(Head(s)) \o EscapeStr(Tail(s))

DumpStr(s) == <<Quote>> \o EscapeStr(s) \o <<Quote>>

\* a line break followed by (2 * level) spaces
Indent(level) == <<Newline>> \o [i \in 1..level |-> "  "]

RECURSIVE DumpValue(_, _)
RECURSIVE DumpItems(_, _, _)
RECURSIVE DumpElems(_, _, _)
DumpValue(x, level) ==
    CASE x.t = "none" -> <<"null">>
      [] x.t = "num" -> <<DigitSym(x.v[1])>>
      [] x.t = "str" -> DumpStr(x.v)
      [] x.t = "list" ->
            IF x.v = <<>> THEN <<"[", "]">>
            ELSE <<"[">> \o DumpElems(x.v, 1, level + 1) \o Indent(level) \o <<"]">>
      [] OTHER ->
            IF x.v = <<>> THEN <<"{", "}">>
            ELSE <<"{">> \o DumpItems(x.v, 1, level + 1) \o Indent(level) \o <<"}">>
DumpItems(items, i, level) ==
    IF i > Len(items) THEN <<>>
    ELSE (IF i > 1 THEN <<",">> ELSE <<>>) \o Indent(level)
         \o DumpStr(items[i][1]) \o <<":", " ">> \o DumpValue(items[i][2], level)
         \o DumpItems(items, i + 1, level)
DumpElems(elems, i, level) ==
    IF i > Len(elems) THEN <<>>
    ELSE (IF i > 1 THEN <<",">> ELSE <<>>) \o Indent(level)
         \o DumpValue(elems[i], level) \o DumpElems(elems, i + 1, level)

json_dump(data) == DumpValue(data, 0)

\* ------------------------------------------------------------------------
\* json.load(f): a parse result is [ok, v, i], i the next unread position
\* ------------------------------------------------------------------------
Whitespace == {" ", "  ", Newline}
ParseFail == [ok |-> FALSE, v |-> PyNone, i |-> 0]
ParseOk(val, next) == [ok |-> TRUE, v |-> val, i |-> next]

RECURSIVE SkipWs(_, _)
SkipWs(text, i) ==
    IF i <= Len(text) /\ text[i] \in Whitespace THEN SkipWs(text, i + 1) ELSE i

\* the characters of a string literal whose opening quote is before position i
RECURSIVE ParseChars(_, _, _)
ParseChars(text, i, acc) ==
    IF i > Len(text) THEN ParseFail
    ELSE IF text[i] = Quote THEN ParseOk(PyStr(acc), i + 1)
    ELSE IF text[i] = Newline THEN ParseFail
    ELSE IF text[i] = Backslash THEN
        IF i + 1 > Len(text) THEN ParseFail
        ELSE IF text[i + 1] = Quote THEN ParseChars(text, i + 2, Append(acc, Quote))
        ELSE IF text[i + 1] = Backslash THEN ParseChars(text, i + 2, Append(acc, Backslash))
        ELSE IF text[i + 1] = "n" THEN ParseChars(text, i + 2, Append(acc, Newline))
        ELSE IF text[i + 1] = "u" /\ i + 2 <= Len(text) /\ text[i + 2] = "00e9"
            THEN ParseChars(text, i + 3, Append(acc, NonAscii))
        ELSE ParseFail
    ELSE ParseChars(text, i + 1, Append(acc, text[i]))

RECURSIVE ParseValue(_, _)
RECURSIVE ParseMembers(_, _, _)
RECURSIVE ParseElements(_, _, _)

\* an object: after a member's value, "}" ends it and "," continues it
MemberNext(text, e, items) ==
    IF e > Len(text) THEN ParseFail
    ELSE IF text[e] = "}" THEN ParseOk(PyDict(items), e + 1)
    ELSE IF text[e] = "," THEN ParseMembers(text, e + 1, items)
    ELSE ParseFail
MemberEnd(text, key, val, acc) ==
    IF ~val.ok THEN ParseFail
    ELSE MemberNext(text, SkipWs(text, val.i), DictSet(acc, key, val.v))
MemberValue(text, key, c, acc) ==
    IF c > Len(text) \/ text[c] # ":" THEN ParseFail
    ELSE MemberEnd(text, key, ParseValue(text, c + 1), acc)
MemberColon(text, k, acc) ==
    IF ~k.ok THEN ParseFail ELSE MemberValue(text, k.v.v, SkipWs(text, k.i), acc)
MemberKey(text, i, acc) ==
    IF i > Len(text) \/ text[i] # Quote THEN ParseFail
    ELSE MemberColon(text, ParseChars(text, i + 1, <<>>), acc)
\* "key": value pairs up to the closing brace
ParseMembers(text, i0, acc) == MemberKey(text, SkipWs(text, i0), acc)

\* an array: after an element, "]" ends it and "," continues it
ElementNext(text, e, elems) ==
    IF e > Len(text) THEN ParseFail
    ELSE IF text[e] = "]" THEN ParseOk(PyList(elems), e + 1)
    ELSE IF text[e] = "," THEN ParseElements(text, e + 1, elems)
    ELSE ParseFail
ElementEnd(text, val, acc) ==
    IF ~val.ok THEN ParseFail
    ELSE ElementNext(text, SkipWs(text, val.i), Append(acc, val.v))
\* values up to the closing bracket
ParseElements(text, i0, acc) == ElementEnd(text, ParseValue(text, i0), acc)

ArrayAt(text, j) ==
    IF j <= Len(text) /\ text[j] = "]" THEN ParseOk(PyList(<<>>), j + 1)
    ELSE ParseElements(text, j, <<>>)
ObjectAt(text, j) ==
    IF j <= Len(text) /\ text[j] = "}" THEN ParseOk(PyDict(<<>>), j + 1)
    ELSE ParseMembers(text, j, <<>>)
ValueAt(text, i) ==
    IF i > Len(text) THEN ParseFail
    ELSE IF text[i] = "null" THEN ParseOk(PyNone, i + 1)
    ELSE IF \E n \in Digits : text[i] = DigitSym(n)
         THEN ParseOk(PyNum(CHOOSE n \in Digits : text[i] = DigitSym(n)), i + 1)
    ELSE IF text[i] = Quote THEN ParseChars(text, i + 1, <<>>)
    ELSE IF text[i] = "[" THEN ArrayAt(text, SkipWs(text, i + 1))
    ELSE IF text[i] = "{" THEN ObjectAt(text, SkipWs(text, i + 1))
    ELSE ParseFail
ParseValue(text, i0) == ValueAt(text, SkipWs(text, i0))

\* a value followed by anything but whitespace is "Extra data"
WholeText(text, r) == IF r.ok /\ SkipWs(text, r.i) > Len(text) THEN r ELSE ParseFail

\* json.load: [ok |-> FALSE] stands for JSONDecodeError
json_load(text) == WholeText(text, ParseValue(text, 1))

\* ------------------------------------------------------------------------
\* Strings used by the bridge
\* ------------------------------------------------------------------------
S(atom) == <<atom>>
Str(atom) == PyStr(<<atom>>)

\* Settings.ytm_client_token
ytm_client_token == "dev-token"
\* ThreadPoolExecutor(max_workers=4)
max_workers == 4

\* the keys _get_cached_auth_string reads, in its order
AuthKeys ==
    << S("authorization"), S("x-goog-authuser"), S("x-goog-visitor-id"), S("x-origin"),
       S("x-youtube-client-name"), S("x-youtube-client-version"), S("user-agent"),
       S("accept-language"), S("cookie") >>

\* HeaderIngest.dict(): url, time, headers (a str-to-str mapping, as item pairs)
Document(url, time, headers) ==
    PyDict(<< <<S("url"), PyStr(url)>>, <<S("time"), PyStr(time)>>,
              <<S("headers"), PyDict(headers)>> >>)

\* ------------------------------------------------------------------------
\* Credential store: HEADERS_FILE
\* ------------------------------------------------------------------------
\* the file is missing, or exists with a text; an existing file may be
\* unreadable (open raises)
NoFile == [exists |-> FALSE, readable |-> FALSE, text |-> <<>>]
FileOf(text) == [exists |-> TRUE, readable |-> TRUE, text |-> text]
LockedFile(text) == [exists |-> TRUE, readable |-> FALSE, text |-> text]

\* load_headers(): every exception is swallowed, None is returned
Loaded(r) == IF r.ok THEN r.v ELSE PyNone
load_headers(f) ==
    IF f.exists
    THEN IF ~f.readable THEN PyNone ELSE Loaded(json_load(f.text))
    ELSE PyNone

\* what the medium does to one save: "ok"; "denied" (makedirs or open raises,
\* nothing is written); "short" (open has truncated the file, the write raises
\* after `cut` symbols)
SaveOutcomes == {"ok", "denied", "short"}
Cuts(text) == {Len(text) \div 2}

\* a save that opens the file for appending (the fault C18 excludes)
Written_append(f, text, io, cut) ==
    CASE io = "ok" -> [file |-> FileOf((IF f.exists THEN f.text ELSE <<>>) \o text),
                       ret |-> TRUE]
      [] io = "short" -> [file |-> FileOf(SubSeq(text, 1, cut)), ret |-> FALSE]
      [] OTHER -> [file |-> f, ret |-> FALSE]
\* save_headers(data): the file afterwards and the bool returned
Written(f, text, io, cut) ==
    CASE io = "ok" -> [file |-> FileOf(text), ret |-> TRUE]
      [] io = "short" -> [file |-> FileOf(SubSeq(text, 1, cut)), ret |-> FALSE]
      [] OTHER -> [file |-> f, ret |-> FALSE]
save_headers(f, data, io, cut) == Written(f, json_dump(data), io, cut)

\* ------------------------------------------------------------------------
\* Session cache: _get_cached_auth_string under lru_cache(maxsize=1)
\* ------------------------------------------------------------------------
\* ytmusicapi.setup(headers_raw=raw): third-party, a function of raw alone
setup(raw) == PyStr(<<"setup:">> \o raw)

\* str(val) inside the f-string; header values are strs (or numbers in a
\* hand-edited file)
Format(val) ==
    CASE val.t = "str" -> val.v
      [] val.t = "num" -> <<DigitSym(val.v[1])>>
      [] val.t = "none" -> <<"None">>
      [] OTHER -> <<"repr">>

\* f"{key}: {val}"
HeaderLine(key, val) == key \o <<":", " ">> \o Format(val)

\* a loop without its `if val` test (the fault C8 excludes)
LineFor_unfiltered(key, val) == <<HeaderLine(key, val)>>
\* the raw_lines loop over the keys from position i on
LineFor(key, val) == IF Truthy(val) THEN <<HeaderLine(key, val)>> ELSE <<>>
RECURSIVE RawLines(_, _)
RawLines(headers, i) ==
    IF i > Len(AuthKeys) THEN <<>>
    ELSE LineFor(AuthKeys[i], DictGet(headers, AuthKeys[i])) \o RawLines(headers, i + 1)

\* "\n".join(raw_lines)
RECURSIVE JoinLines(_)
JoinLines(lines) ==
    IF lines = <<>> THEN <<>>
    ELSE IF Len(lines) = 1 THEN lines[1]
    ELSE lines[1] \o <<Newline>> \o JoinLines(Tail(lines))

Returned(val) == [raised |-> FALSE, v |-> val]
Raised == [raised |-> TRUE, v |-> PyNone]

\* the body of _get_cached_auth_string: the value returned, or raised when
\* .get is called on something that is not a dict (AttributeError)
\* lines 89-92
AuthOfLines(raw_lines) ==
    IF raw_lines = <<>> THEN Returned(PyNone) ELSE Returned(setup(JoinLines(raw_lines)))
\* lines 74-88: headers.get on something that is no dict raises
AuthOfHeaders(headers) ==
    IF ~IsDict(headers) THEN Raised ELSE AuthOfLines(RawLines(headers, 1))
\* x or {}
OrEmptyDict(x) == IF Truthy(x) THEN x ELSE PyDict(<<>>)
\* lines 70-72: headers_data.get on something that is no dict raises
AuthOfData(headers_data) ==
    IF ~Truthy(headers_data) THEN Returned(PyNone)
    ELSE IF ~IsDict(headers_data) THEN Raised
    ELSE AuthOfHeaders(OrEmptyDict(DictGet(headers_data, S("headers"))))
auth_string_body(f) == AuthOfData(load_headers(f))

\* the lru_cache slot: empty, or holding the one memoized return value
EmptyCache == [hit |-> FALSE, v |-> PyNone]
Cached(val) == [hit |-> TRUE, v |-> val]

\* _get_cached_auth_string(): a hit returns the slot; a miss runs the body and
\* memoizes what it returns (an exception is not memoized)
Memoize(c, r) ==
    IF r.raised THEN [raised |-> TRUE, v |-> PyNone, cache |-> c]
    ELSE [raised |-> FALSE, v |-> r.v, cache |-> Cached(r.v)]
get_cached_auth_string(c, f) ==
    IF c.hit THEN [raised |-> FALSE, v |-> c.v, cache |-> c]
    ELSE Memoize(c, auth_string_body(f))

\* a cache_clear that leaves the slot as it is (the fault C2 excludes)
cache_clear_noop(c) == c
\* _get_cached_auth_string.cache_clear()
cache_clear(c) == EmptyCache

\* _make_yt(): None without an auth string, else YTMusic(auth)
\* YTMusic(auth): the client object built on the auth string (truthy, like
\* every plain object)
YTMusic(auth) == [t |-> "YTMusic", v |-> <<auth>>]
\* a _make_yt without its `if not auth` test (the fault C5 excludes)
ClientFor_unchecked(a) ==
    [raised |-> a.raised, cache |-> a.cache,
     yt |-> IF a.raised THEN PyNone ELSE YTMusic(a.v)]
ClientFor(a) ==
    [raised |-> a.raised, cache |-> a.cache,
     yt |-> IF a.raised \/ ~Truthy(a.v) THEN PyNone ELSE YTMusic(a.v)]
make_yt(c, f) == ClientFor(get_cached_auth_string(c, f))

\* ------------------------------------------------------------------------
\* Requests, upstream results and responses
\* ------------------------------------------------------------------------
PyBool(b) == [t |-> "bool", v |-> <<b>>]

\* the X-Client-Token header: the secret, another token, or no header (None)
AbsentToken == "(absent)"
Tokens == {ytm_client_token, "bad-token", AbsentToken}

\* a verify_token that lets a request without the header pass (the fault C4
\* excludes)
verify_token_absent_ok(x_client_token) ==
    x_client_token \notin {ytm_client_token, AbsentToken}
\* verify_token: TRUE when it raises HTTPException(401)
verify_token(x_client_token) == x_client_token # ytm_client_token

\* documents the extension ingests
DocA == Document(S("u1"), S("t1"), << <<S("authorization"), Str("a")>> >>)
DocB == Document(S("u2"), S("t2"),
                 << <<S("x-extra"), Str("x")>>, <<S("cookie"), Str("b")>>,
                    <<S("x-goog-authuser"), Str("0")>> >>)
DocNone == Document(S("u3"), S("t3"),
                    << <<S("x-extra"), Str("x")>>, <<S("authorization"), PyStr(<<>>)>> >>)
IngestDocs == {DocA, DocB, DocNone}

\* upstream records: a track as ytmusicapi returns it, and an item that is no dict
Track ==
    PyDict(<< <<S("videoId"), Str("v1")>>, <<S("title"), Str("T1")>>,
              <<S("artists"), PyList(<<PyDict(<< <<S("name"), Str("A1")>> >>)>>)>>,
              <<S("album"), PyDict(<< <<S("name"), Str("L1")>> >>)>>,
              <<S("thumbnails"), PyList(<<PyDict(<< <<S("url"), Str("h1")>> >>)>>)>>,
              <<S("played"), Str("Today")>> >>)
Junk == Str("junk")
Items == {Track, Junk}
\* the result lists the third-party calls return: every list up to MaxRows
\* items, and one longer than every limit
LongRows == [i \in 1..(MaxLimit + 1) |-> Track]
Rows == UNION {[1..k -> Items] : k \in 0..MaxRows} \cup {LongRows}

\* what one third-party call does: raises, or returns rows
UpRaise == [raised |-> TRUE, rows |-> <<>>]
UpReturn(rows) == [raised |-> FALSE, rows |-> rows]
Upstream == {UpRaise} \cup {UpReturn(r) : r \in Rows}

\* _try_history: an exception of yt.get_history() becomes []
try_history(up) == IF up.raised THEN UpReturn(<<>>) ELSE up

\* item.get(key, default)
GetDefault(d, key, default) ==
    IF \E i \in 1..Len(d.v) : d.v[i][1] = key THEN DictGet(d, key) ELSE default

\* [a.get("name") for a in (item.get("artists") or []) if isinstance(a, dict)]
RECURSIVE ArtistNames(_)
ArtistNames(as) ==
    IF as = <<>> THEN <<>>
    ELSE (IF IsDict(Head(as)) THEN <<DictGet(Head(as), S("name"))>> ELSE <<>>)
         \o ArtistNames(Tail(as))
NamesOf(a) ==
    IF ~Truthy(a) THEN Returned(PyList(<<>>))
    ELSE IF a.t = "list" THEN Returned(PyList(ArtistNames(a.v)))
    ELSE IF a.t \in {"str", "dict"} THEN Returned(PyList(<<>>))
    ELSE Raised
Artists(item) == NamesOf(DictGet(item, S("artists")))

\* (item.get("thumbnails") or [{}])[0].get("url", "")
FirstUrl(th) ==
    IF th.t = "list" /\ IsDict(th.v[1])
    THEN Returned(GetDefault(th.v[1], S("url"), PyStr(<<>>)))
    ELSE Raised
\* thumbnails taken as they are, without the `or [{}]` (the fault C22 excludes)
OrEmptyThumb_plain(x) == x
OrEmptyThumb(x) == IF Truthy(x) THEN x ELSE PyList(<<PyDict(<<>>)>>)
Thumbnail(item) == FirstUrl(OrEmptyThumb(DictGet(item, S("thumbnails"))))

\* the record get_history appends for one dict item
AlbumName(album) == IF IsDict(album) THEN DictGet(album, S("name")) ELSE PyStr(<<>>)
NormalizeItem(item) ==
    PyDict(<< <<S("videoId"), GetDefault(item, S("videoId"), PyStr(<<>>))>>,
              <<S("title"), GetDefault(item, S("title"), Str("Unknown"))>>,
              <<S("artists"), Artists(item).v>>,
              <<S("album"), AlbumName(DictGet(item, S("album")))>>,
              <<S("thumbnail"), Thumbnail(item).v>>,
              <<S("played"), GetDefault(item, S("played"), PyStr(<<>>))>> >>)

ItemRaises(item) == IsDict(item) /\ (Artists(item).raised \/ Thumbnail(item).raised)

RECURSIVE Normalize(_)
Normalize(history) ==
    IF history = <<>> THEN <<>>
    ELSE (IF IsDict(Head(history)) THEN <<NormalizeItem(Head(history))>> ELSE <<>>)
         \o Normalize(Tail(history))

\* a slice that keeps the last n items (the fault C21 excludes)
Take_last(history, n) ==
    SubSeq(history, (IF Len(history) < n THEN 0 ELSE Len(history) - n) + 1, Len(history))
\* history[:n]
Take(history, n) == SubSeq(history, 1, IF Len(history) < n THEN Len(history) ELSE n)

\* validate_connection's formatted sample of history[:5]
\* x or default
Or(x, default) == IF Truthy(x) THEN x ELSE default
SampleEntry(i, item) ==
    PyDict(<< <<S("number"), PyNum(i)>>,
              <<S("title"), Or(DictGet(item, S("title")), Str("Unknown"))>>,
              <<S("artists"), Artists(item).v>>,
              <<S("played"), Or(DictGet(item, S("played")), PyStr(<<>>))>> >>)
RECURSIVE SampleFrom(_, _)
SampleFrom(sample, i) ==
    IF i > Len(sample) THEN <<>>
    ELSE (IF IsDict(sample[i]) THEN <<SampleEntry(i, sample[i])>> ELSE <<>>)
         \o SampleFrom(sample, i + 1)
FormatSample(sample) == SampleFrom(sample, 1)

\* response bodies
\* class SimpleResponse, the response_model of validate and disconnect: a
\* sample the handler does not give is None
SimpleResponse(ok, message) ==
    PyDict(<< <<S("ok"), PyBool(ok)>>, <<S("message"), Str(message)>>,
              <<S("sample"), PyNone>> >>)
SampleResponse(message, sample) ==
    PyDict(<< <<S("ok"), PyBool(TRUE)>>, <<S("message"), Str(message)>>,
              <<S("sample"), PyList(sample)>> >>)
Detail(text) == PyDict(<< <<S("detail"), Str(text)>> >>)

NotConnected ==
    "Not connected yet. Open music.youtube.com with the extension enabled and play a track."
NoHistory == "Connected, but no history returned yet. Try playing a track and retry."
NoHeaders ==
    "No headers found. Visit music.youtube.com with the extension loaded and play a track."

\* ------------------------------------------------------------------------
\* State
\* ------------------------------------------------------------------------
VARIABLES
    file,    \* HEADERS_FILE on disk
    cache,   \* the lru_cache slot of _get_cached_auth_string
    calls,   \* the requests suspended on the pool, by slot
    queue,   \* the executor's work queue: slots submitted and not yet started
    last,    \* the latest request handled: its route, its token and the response sent
    fresh,   \* the document of the latest successful ingest; set until a session is read
    gone,    \* a disconnect has deleted the file and no ingest has succeeded since
    arg,     \* the document the store calls save (SpecStore)
    stored,  \* the document of the latest save if it succeeded and no save or clear followed
    reads,   \* the times load_headers has run inside the cached function since the
             \* cache was last cleared
    pc       \* where a save_headers in progress stands (SpecOverlap)

vars == <<file, cache, calls, queue, last, fresh, gone, arg, stored, reads, pc>>

Slots == DOMAIN calls
NoUp == UpReturn(<<>>)
FreeSlot ==
    [st |-> "free", route |-> "", yt |-> PyNone, limit |-> 0, up |-> NoUp, out |-> NoUp,
     hang |-> FALSE]
Task(route, yt, limit) ==
    [st |-> "queued", route |-> route, yt |-> yt, limit |-> limit, up |-> NoUp, out |-> NoUp,
     hang |-> FALSE]

Running == {i \in Slots : calls[i].st = "running"}
FreeSlots == {i \in Slots : calls[i].st = "free"}
LowestFree == CHOOSE i \in FreeSlots : \A j \in FreeSlots : i <= j

\* `last` for a request answered before any await
Handled(route, tok, status, body) ==
    [via |-> "handler", route |-> route, tok |-> tok, status |-> status, body |-> body,
     up |-> NoUp, raised |-> FALSE]
\* `last` for a request suspended at its await: no response yet
Suspended(route, tok) ==
    [via |-> "suspended", route |-> route, tok |-> tok, status |-> 0, body |-> PyNone,
     up |-> NoUp, raised |-> FALSE]
\* `last` for a request answered after its pool call; up is what the
\* third-party call did
Resumed(slot, status, body) ==
    [via |-> "pool", route |-> calls[slot].route, tok |-> ytm_client_token,
     status |-> status, body |-> body, up |-> calls[slot].up, raised |-> FALSE]
\* `last` for a direct call of a store or cache function: what it returned, or
\* that it raised
Called(fn, raised, value) ==
    [via |-> "call", route |-> fn, tok |-> "", status |-> 0, body |-> value, up |-> NoUp,
     raised |-> raised]
NoResponse ==
    [via |-> "", route |-> "", tok |-> "", status |-> 0, body |-> PyNone, up |-> NoUp,
     raised |-> FALSE]

\* a call of _get_cached_auth_string runs load_headers exactly when the slot is
\* empty
ReadsAfter(c) == IF c.hit THEN reads ELSE reads + 1

Unset == [set |-> FALSE, doc |-> PyNone]
Ingested(doc) == [set |-> TRUE, doc |-> doc]

Init ==
    /\ file = NoFile
    /\ cache = EmptyCache
    /\ calls = [i \in 1..MaxInFlight |-> FreeSlot]
    /\ queue = <<>>
    /\ last = NoResponse
    /\ fresh = Unset
    /\ gone = FALSE
    /\ arg = PyNone
    /\ stored = Unset
    /\ reads = 0
    /\ pc = "idle"

\* ------------------------------------------------------------------------
\* Route handlers
\* ------------------------------------------------------------------------
\* ingest_headers after save_headers has returned
Ingest(tok, payload, saved) ==
    /\ file' = saved.file
    /\ IF ~saved.ret
       THEN /\ last' = Handled("ingest", tok, 500, Detail("Failed to save headers"))
            /\ UNCHANGED <<cache, fresh, gone, reads>>
       ELSE /\ cache' = cache_clear(cache)
            /\ reads' = 0
            /\ last' = Handled("ingest", tok, 200, Str("OK"))
            /\ fresh' = Ingested(payload)
            /\ gone' = FALSE
    /\ UNCHANGED <<calls, queue, arg, stored, pc>>

\* POST /ytm/ingest
ingest_headers(tok, payload, io, cut) ==
    IF verify_token(tok)
    THEN /\ last' = Handled("ingest", tok, 401, Detail("Invalid token"))
         /\ UNCHANGED <<file, cache, calls, queue, fresh, gone, arg, stored, reads, pc>>
    ELSE Ingest(tok, payload, save_headers(file, payload, io, cut))

\* a disconnect that removes without asking whether the file exists: without
\* a file os.remove raises (the fault C12 excludes)
disconnect_unguarded(tok, rm) ==
    IF verify_token(tok)
    THEN /\ last' = Handled("disconnect", tok, 401, Detail("Invalid token"))
         /\ UNCHANGED <<file, cache, calls, queue, fresh, gone, arg, stored, reads, pc>>
    ELSE /\ IF file.exists /\ rm = "ok"
            THEN /\ file' = NoFile
                 /\ gone' = TRUE
                 /\ last' = Handled("disconnect", tok, 200,
                                    SimpleResponse(TRUE, "Deleted headers"))
            ELSE /\ last' = Handled("disconnect", tok, 500,
                                    Detail("Failed to delete files: OSError"))
                 /\ UNCHANGED <<file, gone>>
         /\ UNCHANGED <<cache, calls, queue, fresh, arg, stored, reads, pc>>
\* DELETE /ytm/connect; rm is what os.remove does: "ok", or "fail" (it raises
\* an OSError, whose text ends the detail)
disconnect(tok, rm) ==
    IF verify_token(tok)
    THEN /\ last' = Handled("disconnect", tok, 401, Detail("Invalid token"))
         /\ UNCHANGED <<file, cache, calls, queue, fresh, gone, arg, stored, reads, pc>>
    ELSE /\ IF file.exists
            THEN IF rm = "ok"
                 THEN /\ file' = NoFile
                      /\ gone' = TRUE
                      /\ last' = Handled("disconnect", tok, 200,
                                         SimpleResponse(TRUE, "Deleted headers"))
                 ELSE /\ last' = Handled("disconnect", tok, 500,
                                         Detail("Failed to delete files: OSError"))
                      /\ UNCHANGED <<file, gone>>
            ELSE /\ last' = Handled("disconnect", tok, 200,
                                    SimpleResponse(TRUE, "No headers to delete"))
                 /\ UNCHANGED <<file, gone>>
         /\ UNCHANGED <<cache, calls, queue, fresh, arg, stored, reads, pc>>

\* a handler that makes the third-party call itself instead of handing it to
\* the executor (the fault C19 excludes)
Submit_inline(route, tok, limit, made) ==
    /\ cache' = made.cache
    /\ fresh' = [fresh EXCEPT !.set = FALSE]
    /\ reads' = ReadsAfter(cache)
    /\ UNCHANGED <<file, gone, arg, stored, pc, queue>>
    /\ IF made.raised \/ ~Truthy(made.yt)
       THEN /\ last' = Handled(route, tok, 404, Detail(NoHeaders))
            /\ UNCHANGED calls
       ELSE /\ FreeSlots # {}
            /\ calls' = [calls EXCEPT ![LowestFree] =
                            [Task(route, made.yt, limit) EXCEPT !.st = "done"]]
            /\ last' = Suspended(route, tok)
\* a handler once _make_yt has returned (or raised): not connected, or
\* run_in_executor queues the call on the pool and the handler is suspended
Submit(route, tok, limit, made) ==
    /\ cache' = made.cache
    /\ fresh' = [fresh EXCEPT !.set = FALSE]
    /\ reads' = ReadsAfter(cache)
    /\ UNCHANGED <<file, gone, arg, stored, pc>>
    /\ IF made.raised
       THEN /\ last' = Handled(route, tok, 500, Detail("Internal Server Error"))
            /\ UNCHANGED <<calls, queue>>
       ELSE IF ~Truthy(made.yt)
       THEN /\ last' = IF route = "validate"
                       THEN Handled(route, tok, 200, SimpleResponse(FALSE, NotConnected))
                       ELSE Handled(route, tok, 404, Detail(NoHeaders))
            /\ UNCHANGED <<calls, queue>>
       ELSE /\ FreeSlots # {}
            /\ calls' = [calls EXCEPT ![LowestFree] = Task(route, made.yt, limit)]
            /\ queue' = Append(queue, LowestFree)
            /\ last' = Suspended(route, tok)

\* the part of validate / history / library / search up to the await:
\* verify_token, _make_yt, and run_in_executor (the call is queued on the pool)
Dispatch(route, tok, limit) ==
    IF verify_token(tok)
    THEN /\ last' = Handled(route, tok, 401, Detail("Invalid token"))
         /\ UNCHANGED <<file, cache, calls, queue, fresh, gone, arg, stored, reads, pc>>
    ELSE Submit(route, tok, limit, make_yt(cache, file))

\* GET /ytm/validate
validate_connection(tok) == Dispatch("validate", tok, 0)
\* GET /ytm/history?limit=
get_history(tok, limit) == Dispatch("history", tok, limit)
\* GET /ytm/library
get_library(tok) == Dispatch("library", tok, 0)
\* GET /ytm/search?query=
search_music(tok, query) == Dispatch("search", tok, 0)

\* ------------------------------------------------------------------------
\* Dispatch pool
\* ------------------------------------------------------------------------
\* a pool that starts a thread for every call (the fault C14 excludes)
WorkerStart_unbounded(slot) ==
    /\ queue # <<>>
    /\ slot = Head(queue)
    /\ queue' = Tail(queue)
    /\ calls' = [calls EXCEPT ![slot].st = "running"]
    /\ UNCHANGED <<file, cache, last, fresh, gone, arg, stored, reads, pc>>
\* a pool with a single worker thread (the fault C20 excludes)
WorkerStart_single(slot) ==
    /\ queue # <<>>
    /\ slot = Head(queue)
    /\ Cardinality(Running) < 1
    /\ queue' = Tail(queue)
    /\ calls' = [calls EXCEPT ![slot].st = "running"]
    /\ UNCHANGED <<file, cache, last, fresh, gone, arg, stored, reads, pc>>
\* a call that builds its client on the worker, reading the session cache
\* there (the fault C25 excludes)
WorkerStart_rereads(slot) ==
    /\ queue # <<>>
    /\ slot = Head(queue)
    /\ Cardinality(Running) < max_workers
    /\ queue' = Tail(queue)
    /\ cache' = make_yt(cache, file).cache
    /\ calls' = [calls EXCEPT ![slot].st = "running", ![slot].yt = make_yt(cache, file).yt]
    /\ UNCHANGED <<file, last, fresh, gone, arg, stored, reads, pc>>
\* a free worker takes the oldest queued call
WorkerStart(slot) ==
    /\ queue # <<>>
    /\ slot = Head(queue)
    /\ Cardinality(Running) < max_workers
    /\ queue' = Tail(queue)
    /\ calls' = [calls EXCEPT ![slot].st = "running"]
    /\ UNCHANGED <<file, cache, last, fresh, gone, arg, stored, reads, pc>>

\* the function given to run_in_executor returns or raises: _try_history for
\* validate and history, a bare lambda for library and search
WorkerRun(route, up) == IF route \in {"validate", "history"} THEN try_history(up) ELSE up

WorkerFinish(slot, up) ==
    /\ calls[slot].st = "running"
    /\ ~calls[slot].hang
    /\ calls' = [calls EXCEPT ![slot].st = "done", ![slot].up = up,
                              ![slot].out = WorkerRun(calls[slot].route, up)]
    /\ UNCHANGED <<file, cache, queue, last, fresh, gone, arg, stored, reads, pc>>

\* ------------------------------------------------------------------------
\* The handlers after the await
\* ------------------------------------------------------------------------
Respond(slot, status, body) ==
    /\ last' = Resumed(slot, status, body)
    /\ calls' = [calls EXCEPT ![slot] = FreeSlot]
    /\ UNCHANGED <<file, cache, queue, fresh, gone, arg, stored, reads, pc>>

\* validate_connection, lines 115-129
sample_response(sample) ==
    IF \E i \in 1..Len(sample) : IsDict(sample[i]) /\ Artists(sample[i]).raised
    THEN [status |-> 500, body |-> Detail("Internal Server Error")]
    ELSE [status |-> 200, body |-> SampleResponse("Connection validated", FormatSample(sample))]
\* the status and body validate_connection answers for what the pool returned
validate_response(out) ==
    IF out.raised THEN [status |-> 500, body |-> Detail("Internal Server Error")]
    ELSE IF out.rows = <<>> THEN [status |-> 200, body |-> SimpleResponse(FALSE, NoHistory)]
    ELSE sample_response(Take(out.rows, 5))
Answer(slot, r) == Respond(slot, r.status, r.body)
validate_resume(slot) ==
    /\ calls[slot].st = "done"
    /\ calls[slot].route = "validate"
    /\ Answer(slot, validate_response(calls[slot].out))

\* the status and body get_history answers for what the pool returned
normalized_response(history) ==
    IF \E i \in 1..Len(history) : ItemRaises(history[i])
    THEN [status |-> 500, body |-> Detail("Internal Server Error")]
    ELSE [status |-> 200, body |-> PyList(Normalize(history))]
history_response(out, limit) ==
    IF out.raised THEN [status |-> 500, body |-> Detail("Internal Server Error")]
    ELSE IF out.rows = <<>>
    THEN [status |-> 500, body |-> Detail("Failed to get history from YouTube Music API")]
    ELSE normalized_response(IF Len(out.rows) > limit THEN Take(out.rows, limit) ELSE out.rows)

\* get_history, lines 144-161
history_resume(slot) ==
    /\ calls[slot].st = "done"
    /\ calls[slot].route = "history"
    /\ Answer(slot, history_response(calls[slot].out, calls[slot].limit))

\* the status and body get_library and search_music answer: an exception of
\* the call comes out of the await and out of the handler
listing_response(out) ==
    IF out.raised THEN [status |-> 500, body |-> Detail("Internal Server Error")]
    ELSE [status |-> 200, body |-> PyList(out.rows)]

\* get_library, line 171, and search_music, line 181
listing_resume(slot) ==
    /\ calls[slot].st = "done"
    /\ calls[slot].route \in {"library", "search"}
    /\ Answer(slot, listing_response(calls[slot].out))

Limits == 1..MaxLimit
Queries == {"q"}

Next ==
    \/ \E tok \in Tokens, payload \in IngestDocs, io \in SaveOutcomes :
         \E cut \in Cuts(json_dump(payload)) : ingest_headers(tok, payload, io, cut)
    \/ \E tok \in Tokens, rm \in {"ok", "fail"} : disconnect(tok, rm)
    \/ \E tok \in Tokens : validate_connection(tok)
    \/ \E tok \in Tokens, limit \in Limits : get_history(tok, limit)
    \/ \E tok \in Tokens : get_library(tok)
    \/ \E tok \in Tokens, query \in Queries : search_music(tok, query)
    \/ \E slot \in Slots : WorkerStart(slot)
    \/ \E slot \in Slots, up \in Upstream : WorkerFinish(slot, up)
    \/ \E slot \in Slots : validate_resume(slot)
    \/ \E slot \in Slots : history_resume(slot)
    \/ \E slot \in Slots : listing_resume(slot)

Spec == Init /\ [][Next]_vars

\* ------------------------------------------------------------------------
\* The session cache called directly, over every content the file can have
\* ------------------------------------------------------------------------
\* a header is absent, empty, or one of two values
HeaderChoices == {<<>>, <<"">>, <<"a">>, <<"b">>}
HeaderItem(key, choice) ==
    IF choice = <<>> THEN <<>>
    ELSE <<<<key, PyStr(IF choice = <<"">> THEN <<>> ELSE choice)>>>>
\* documents over the first and the last key read, the second key read, and a
\* key that is not read
SessionDocs ==
    {Document(S("u"), S("t"),
              HeaderItem(S("x-extra"), e) \o HeaderItem(S("cookie"), c)
              \o HeaderItem(S("x-goog-authuser"), u) \o HeaderItem(S("authorization"), a)) :
        e \in HeaderChoices, c \in HeaderChoices, u \in HeaderChoices, a \in HeaderChoices}

\* contents that are no CredentialDocument
BadTexts ==
    { <<>>,                                                \* an empty file
      <<"{", Quote, "url", Quote, ":">>,                   \* a truncated document
      <<"null">>, <<"[", "]">>, <<"{", "}">>, <<"0">>,     \* JSON that is falsy in Python
      <<"[", "1", "]">>, <<"5">>, <<Quote, "x", Quote>>,   \* JSON that is no object
      json_dump(PyDict(<< <<S("headers"), PyNone>> >>)),
      json_dump(PyDict(<< <<S("headers"), PyList(<<>>)>> >>)),
      json_dump(PyDict(<< <<S("headers"), Str("x")>> >>)),
      json_dump(PyDict(<< <<S("headers"), PyList(<<PyNum(1)>>)>> >>)),
      json_dump(PyDict(<< <<S("headers"), PyNum(5)>> >>)),
      json_dump(PyDict(<< <<S("url"), Str("u")>> >>)),
      json_dump(PyDict(<< <<S("headers"),
                            PyDict(<< <<S("cookie"), PyNone>>,
                                      <<S("authorization"), PyNum(5)>> >>)>> >>)) }

SessionFiles ==
    {NoFile, LockedFile(json_dump(DocA))}
    \cup {FileOf(t) : t \in BadTexts}
    \cup {FileOf(json_dump(d)) : d \in SessionDocs}

InitSession ==
    /\ file \in SessionFiles
    /\ cache = EmptyCache
    /\ calls = [i \in 1..MaxInFlight |-> FreeSlot]
    /\ queue = <<>>
    /\ last = NoResponse
    /\ fresh = Unset
    /\ gone = FALSE
    /\ arg = PyNone
    /\ stored = Unset
    /\ reads = 0
    /\ pc = "idle"

SessionGot(r) ==
    /\ cache' = r.cache
    /\ last' = Called("get_session", r.raised, r.v)
    /\ reads' = ReadsAfter(cache)
    /\ UNCHANGED <<file, calls, queue, fresh, gone, arg, stored, pc>>
\* _get_cached_auth_string()
GetSession ==
    /\ cache.hit \/ reads < MaxReads
    /\ SessionGot(get_cached_auth_string(cache, file))

\* an invalidation that also removes the stored document (the fault C23
\* excludes)
Invalidate_unlink ==
    /\ cache' = cache_clear(cache)
    /\ file' = NoFile
    /\ last' = Called("invalidate", FALSE, PyNone)
    /\ reads' = 0
    /\ UNCHANGED <<calls, queue, fresh, gone, arg, stored, pc>>
\* _get_cached_auth_string.cache_clear()
Invalidate ==
    /\ cache' = cache_clear(cache)
    /\ last' = Called("invalidate", FALSE, PyNone)
    /\ reads' = 0
    /\ UNCHANGED <<file, calls, queue, fresh, gone, arg, stored, pc>>

\* load_headers()
Load ==
    /\ last' = Called("load", FALSE, load_headers(file))
    /\ UNCHANGED <<file, cache, calls, queue, fresh, gone, arg, stored, reads, pc>>

NextSession == GetSession \/ Invalidate \/ Load

SpecSession == InitSession /\ [][NextSession]_vars

\* ------------------------------------------------------------------------
\* The credential store called directly
\* ------------------------------------------------------------------------
\* the characters a header value is made of: plain ones and those json escapes
ValueAlphabet == {"a", "n", Quote, Backslash, Newline, NonAscii}
Values == UNION {[1..k -> ValueAlphabet] : k \in 0..MaxValLen}
StoreDocs ==
    {Document(S("u"), S("t"), << <<k, PyStr(val)>> >>) :
        k \in {S("cookie"), <<Backslash, "u">>}, val \in Values}
    \cup {Document(<<Quote>>, <<>>, <<>>),
          Document(S("u"), <<"t", Newline>>,
                   << <<S("b"), Str("1")>>, <<S("a"), Str("null")>> >>)}

InitStore ==
    /\ file \in {NoFile, FileOf(json_dump(DocA)), FileOf(<<"{">>)}
    /\ arg \in StoreDocs
    /\ cache = EmptyCache
    /\ calls = [i \in 1..MaxInFlight |-> FreeSlot]
    /\ queue = <<>>
    /\ last = NoResponse
    /\ fresh = Unset
    /\ gone = FALSE
    /\ stored = Unset
    /\ reads = 0
    /\ pc = "idle"

SaveDone(r) ==
    /\ file' = r.file
    /\ stored' = IF r.ret THEN Ingested(arg) ELSE Unset
    /\ last' = Called("save", FALSE, PyBool(r.ret))
    /\ UNCHANGED <<cache, calls, queue, fresh, gone, arg, reads, pc>>
\* save_headers(arg)
Save(io, cut) == SaveDone(save_headers(file, arg, io, cut))

\* os.remove(HEADERS_FILE) when the file exists (disconnect, lines 187-188)
Clear ==
    /\ file.exists
    /\ file' = NoFile
    /\ stored' = Unset
    /\ last' = Called("clear", FALSE, PyNone)
    /\ UNCHANGED <<cache, calls, queue, fresh, gone, arg, reads, pc>>

NextStore ==
    \/ \E io \in SaveOutcomes : \E cut \in Cuts(json_dump(arg)) : Save(io, cut)
    \/ Clear
    \/ Load

SpecStore == InitStore /\ [][NextStore]_vars

\* ------------------------------------------------------------------------
\* save_headers step by step, with load_headers called by another thread of
\* control in between
\* ------------------------------------------------------------------------
\* open(HEADERS_FILE, "w"): the file is created or truncated to nothing
SaveOpen(doc) ==
    /\ pc = "idle"
    /\ arg' = doc
    /\ file' = FileOf(<<>>)
    /\ pc' = "open"
    /\ last' = Called("save_open", FALSE, PyNone)
    /\ UNCHANGED <<cache, calls, queue, fresh, gone, stored, reads>>

\* where the text may be cut when the buffer is written out: after its first
\* symbol, in the middle, before its last symbol
FlushPoints(text) == {1, Len(text) \div 2, Len(text) - 1}

\* json.dump(data, f, indent=2) fills the buffer of f; a full buffer is
\* written out before the rest of the text exists
SaveFlush(cut) ==
    /\ pc = "open"
    /\ file' = FileOf(SubSeq(json_dump(arg), 1, cut))
    /\ pc' = "part"
    /\ last' = Called("save_flush", FALSE, PyNone)
    /\ UNCHANGED <<cache, calls, queue, fresh, gone, arg, stored, reads>>

\* leaving the with block closes f: the rest of the text is written,
\* save_headers returns True
SaveClose ==
    /\ pc \in {"open", "part"}
    /\ file' = FileOf(json_dump(arg))
    /\ pc' = "idle"
    /\ stored' = Ingested(arg)
    /\ last' = Called("save", FALSE, PyBool(TRUE))
    /\ UNCHANGED <<cache, calls, queue, fresh, gone, arg, reads>>

\* no document yet, or one saved earlier
InitOverlap ==
    /\ stored \in {Unset} \cup {Ingested(d) : d \in IngestDocs}
    /\ file = IF stored.set THEN FileOf(json_dump(stored.doc)) ELSE NoFile
    /\ cache = EmptyCache
    /\ calls = [i \in 1..MaxInFlight |-> FreeSlot]
    /\ queue = <<>>
    /\ last = NoResponse
    /\ fresh = Unset
    /\ gone = FALSE
    /\ arg \in {PyNone} \cup IngestDocs
    /\ reads = 0
    /\ pc = "idle"

NextOverlap ==
    \/ \E doc \in IngestDocs : SaveOpen(doc)
    \/ \E cut \in FlushPoints(json_dump(arg)) : SaveFlush(cut)
    \/ SaveClose
    \/ Load

SpecOverlap == InitOverlap /\ [][NextOverlap]_vars

\* ------------------------------------------------------------------------
\* validate_connection from request to response, over every upstream history
\* ------------------------------------------------------------------------
\* a record with a null title and nothing else
Bare == PyDict(<< <<S("title"), PyNone>> >>)
Histories == UNION {[1..k -> {Track, Bare, Junk}] : k \in 0..MaxHistory}

\* the stored file when the request arrives: none, or a document the
\* extension ingested earlier (with or without a usable header)
StoredBefore == {NoFile, FileOf(json_dump(DocA)), FileOf(json_dump(DocNone))}
\* stored content that is valid JSON but no document (no object, or a headers
\* member that is no mapping): load_headers returns it as it is
NonDocuments ==
    {FileOf(<<"[", "1", "]">>),
     FileOf(json_dump(PyDict(<< <<S("headers"), Str("x")>> >>)))}

\* the input: what the store holds and what yt.get_history() will do
InitValidate ==
    /\ arg \in [up : {UpRaise} \cup {UpReturn(h) : h \in Histories}]
    /\ file \in StoredBefore \cup NonDocuments
    /\ cache = EmptyCache
    /\ calls = [i \in 1..MaxInFlight |-> FreeSlot]
    /\ queue = <<>>
    /\ last = NoResponse
    /\ fresh = Unset
    /\ gone = FALSE
    /\ stored = Unset
    /\ reads = 0
    /\ pc = "idle"

\* requests served while a request is suspended at its await, or between
\* requests
Meanwhile ==
    \/ disconnect(ytm_client_token, "ok")
    \/ ingest_headers(ytm_client_token, DocB, "ok", 0)

\* validate requests with a valid token, each up to its await and from the
\* pool's result to its response; the third-party call does arg.up. A file
\* that is no document is loaded again by every request (nothing is
\* memoized), so the loads are counted up to MaxReads.
NextValidate ==
    \/ /\ cache.hit \/ reads < MaxReads
       /\ validate_connection(ytm_client_token)
    \/ \E slot \in Slots : WorkerStart(slot)
    \/ \E slot \in Slots : WorkerFinish(slot, arg.up)
    \/ \E slot \in Slots : validate_resume(slot)
    \/ Meanwhile

SpecValidate == InitValidate /\ [][NextValidate]_vars

\* ------------------------------------------------------------------------
\* The dispatch pool under load: more requests than workers, calls that hang
\* ------------------------------------------------------------------------
Hung == {i \in Slots : calls[i].st = "running" /\ calls[i].hang}

\* the third-party call of a running worker blocks for good; nothing in the
\* code cancels it or times it out. `most` bounds how many calls do so.
Hang(slot, most) ==
    /\ calls[slot].st = "running"
    /\ ~calls[slot].hang
    /\ Cardinality(Hung) < most
    /\ calls' = [calls EXCEPT ![slot].hang = TRUE]
    /\ UNCHANGED <<file, cache, queue, last, fresh, gone, arg, stored, reads, pc>>

\* GET /healthz and GET /health
health_check ==
    /\ last' = Handled("health", "", 200, PyDict(<< <<S("status"), Str("ok")>> >>))
    /\ UNCHANGED <<file, cache, calls, queue, fresh, gone, arg, stored, reads, pc>>

\* what the pool calls do here: raise, or return nothing
PoolUpstream == {UpRaise, UpReturn(<<>>)}

\* a document is stored and its session cached
InitPool ==
    /\ file = FileOf(json_dump(DocA))
    /\ cache = Cached(AuthOfData(DocA).v)
    /\ calls = [i \in 1..PoolSlots |-> FreeSlot]
    /\ queue = <<>>
    /\ last = NoResponse
    /\ fresh = Unset
    /\ gone = FALSE
    /\ arg = PyNone
    /\ stored = Unset
    /\ reads = 1
    /\ pc = "idle"

PoolSteps(most) ==
    \/ \E tok \in {ytm_client_token, AbsentToken} : get_library(tok)
    \/ health_check
    \/ \E slot \in Slots : WorkerStart(slot)
    \/ \E slot \in Slots : Hang(slot, most)
    \/ \E slot \in Slots, up \in PoolUpstream : WorkerFinish(slot, up)
    \/ \E slot \in Slots : listing_resume(slot)

\* any number of calls may hang
NextPool == PoolSteps(max_workers)
SpecPool == InitPool /\ [][NextPool]_vars

\* all workers but one may hang; a worker that can take a call does, a call
\* that does not hang ends, and the event loop resumes a handler whose call
\* has ended
NextPoolFair == PoolSteps(max_workers - 1)
SpecPoolFair ==
    /\ InitPool
    /\ [][NextPoolFair]_vars
    /\ \A slot \in 1..PoolSlots :
          /\ WF_vars(WorkerStart(slot))
          /\ WF_vars(\E up \in PoolUpstream : WorkerFinish(slot, up))
          /\ WF_vars(listing_resume(slot))

\* ------------------------------------------------------------------------
\* Claims about the routes (Spec)
\* ------------------------------------------------------------------------
\* the handle _get_cached_auth_string derives from a document
HandleOf(doc) == AuthOfData(doc).v

\* C1: in every reachable state a non-absent handle held in the cache equals
\* the handle derived from the document currently on disk (so the cache holds
\* no non-absent handle when no document is on disk).
\* The code breaks it: disconnect deletes the file and leaves the cache.
C1_CacheMatchesDisk ==
    (cache.hit /\ Truthy(cache.v)) => auth_string_body(file) = Returned(cache.v)

SessionRoutes == {"validate", "history", "library", "search"}
\* the step is a request being handled up to its response or its await (the
\* workers and the resumed handlers leave these fields of `last` alone or
\* mark them "pool")
RequestStep == last' # last /\ last'.via \in {"handler", "suspended"}

\* C2 as stated: when ingest has answered 200 for D, the first read of the
\* session after it yields the handle derived from D (absent if D has no
\* usable header). A disconnect or a failed write between the ingest and the
\* read breaks it: the read then derives from what the file holds.
C2_FirstReadDerivesFromIngested ==
    [][(fresh.set /\ ~fresh'.set) => cache' = Cached(HandleOf(fresh.doc))]_vars

\* C2, amended: when ingest has answered 200 for D, and until the next request
\* is handled, the file holds D and the cache is empty; and the first read of
\* the session after it, if the file still holds D, yields the handle derived
\* from D, never a value cached before the ingest.
C2_IngestInvalidates ==
    /\ [](last = Handled("ingest", ytm_client_token, 200, Str("OK"))
          => (cache = EmptyCache /\ fresh.set /\ load_headers(file) = fresh.doc))
    /\ [][(fresh.set /\ ~fresh'.set /\ load_headers(file) = fresh.doc)
          => cache' = Cached(HandleOf(fresh.doc))]_vars

\* C2's case: DocB was ingested over an earlier session and has been read since
C2_Witness ==
    /\ ~fresh.set
    /\ fresh.doc = DocB
    /\ load_headers(file) = DocB
    /\ cache = Cached(HandleOf(DocB))
    /\ last = Suspended("history", ytm_client_token)
    /\ \E i \in Slots : calls[i].st = "queued" /\ calls[i].yt = YTMusic(HandleOf(DocB))

\* C3: after a disconnect has deleted the document and until the next
\* successful ingest, history, library and search answer 404 and validate
\* answers ok=false, whatever was cached before.
\* The code breaks it: the handle cached before the disconnect is still served.
C3_GoneMeansNotConnected ==
    (/\ gone
     /\ last.via \in {"handler", "suspended"}
     /\ last.tok = ytm_client_token
     /\ last.route \in SessionRoutes)
    => IF last.route = "validate"
       THEN last = Handled("validate", ytm_client_token, 200,
                           SimpleResponse(FALSE, NotConnected))
       ELSE last = Handled(last.route, ytm_client_token, 404, Detail(NoHeaders))

\* C4: on every route a request whose token is missing or wrong is answered
\* 401 and leaves the file, the cache and the pool (calls in flight and the
\* queue) as they were.
C4_BadTokenChangesNothing ==
    [][(RequestStep /\ last'.tok # ytm_client_token)
        => /\ last' = Handled(last'.route, last'.tok, 401, Detail("Invalid token"))
           /\ UNCHANGED <<file, cache, calls, queue>>]_vars

\* C4's case: a disconnect without the header was refused while a document was
\* stored, a session cached and a call queued
C4_Witness ==
    /\ last = Handled("disconnect", AbsentToken, 401, Detail("Invalid token"))
    /\ file.exists
    /\ cache.hit /\ Truthy(cache.v)
    /\ queue # <<>>

\* C5: when the session is absent, an authorized history, library or search
\* request answers 404 and an authorized validate answers 200 with ok=false,
\* and none of them submits a call to the pool.
C5_AbsentSessionSubmitsNothing ==
    [][(/\ RequestStep
        /\ last'.tok = ytm_client_token
        /\ last'.route \in SessionRoutes
        /\ ~get_cached_auth_string(cache, file).raised
        /\ ~Truthy(get_cached_auth_string(cache, file).v))
        => /\ last'.via = "handler"
           /\ last'.route # "validate"
              => (last'.status = 404 /\ last'.body = Detail(NoHeaders))
           /\ last'.route = "validate"
              => (last'.status = 200 /\ last'.body = SimpleResponse(FALSE, NotConnected))
           /\ UNCHANGED <<calls, queue>>]_vars

\* C5's case: a document without a usable header is stored, the absent outcome
\* is cached, and a history request was answered 404 with the pool idle
C5_Witness ==
    /\ last = Handled("history", ytm_client_token, 404, Detail(NoHeaders))
    /\ load_headers(file) = DocNone
    /\ cache = Cached(PyNone)
    /\ queue = <<>>
    /\ \A i \in Slots : calls[i].st = "free"

\* C6: an authorized history request answers 404 without a session, 500 when
\* the session is present and the upstream call raised, and 200 with an empty
\* sequence when the upstream call returned zero rows.
\* The code breaks the third: zero rows are answered 500.
C6_ThreeOutcomes ==
    last.route = "history" =>
        /\ (last.via = "handler" /\ last.tok = ytm_client_token) => last.status = 404
        /\ (last.via = "pool" /\ last.up.raised) => last.status = 500
        /\ (last.via = "pool" /\ ~last.up.raised /\ last.up.rows = <<>>)
           => (last.status = 200 /\ last.body = PyList(<<>>))

\* C7: for library and search with a session present, an exception of the
\* third-party call degrades to an empty result; it never leaves the handler.
\* The code breaks it: the call is not wrapped and the request is answered 500.
C7_FailureDegradesToEmpty ==
    (last.via = "pool" /\ last.route \in {"library", "search"} /\ last.up.raised)
        => (last.status = 200 /\ last.body = PyList(<<>>))

Deleted == SimpleResponse(TRUE, "Deleted headers")
NothingToDelete == SimpleResponse(TRUE, "No headers to delete")

\* C12 as stated: an authorized disconnect answers 200 with ok=true and no
\* document exists after it, whether one existed before or not.
\* It fails when os.remove raises: the answer is 500 and the document stays.
C12_DisconnectAlwaysSucceeds ==
    (last.via = "handler" /\ last.route = "disconnect" /\ last.tok = ytm_client_token)
    => (last.status = 200 /\ last.body \in {Deleted, NothingToDelete} /\ ~file.exists)

\* C12, amended: an authorized disconnect answers 200 with ok=true when no
\* document exists (nothing-to-delete message, nothing changed) and when one
\* exists and its removal does not fail (the document is gone afterwards); if
\* the removal fails it answers 500 and the document stays. Hence a disconnect
\* after a successful one succeeds too and leaves the state of the first.
C12_DisconnectIdempotent ==
    [][(RequestStep /\ last'.route = "disconnect" /\ last'.tok = ytm_client_token)
        => /\ UNCHANGED <<cache, calls, queue>>
           /\ IF ~file.exists
              THEN last'.status = 200 /\ last'.body = NothingToDelete /\ file' = file
              ELSE \/ last'.status = 200 /\ last'.body = Deleted /\ file' = NoFile
                   \/ last'.status = 500 /\ file' = file]_vars

\* C12's case: a disconnect has deleted the document and the next one was
\* answered nothing-to-delete
C12_Witness ==
    /\ gone
    /\ file = NoFile
    /\ last = Handled("disconnect", ytm_client_token, 200, NothingToDelete)

\* ------------------------------------------------------------------------
\* Claims about the session cache (SpecSession)
\* ------------------------------------------------------------------------
\* the value of a header, and whether it is there and not empty
HeaderOf(doc, key) == DictGet(DictGet(doc, S("headers")), key)
NonEmpty(doc, key) == HeaderOf(doc, key).t = "str" /\ HeaderOf(doc, key).v # <<>>

\* the lines "key: value" of the keys of `keys` that are not empty in doc, in
\* the order of `keys`, joined by line breaks
RECURSIVE LinesOver(_, _)
LinesOver(doc, keys) ==
    IF keys = <<>> THEN <<>>
    ELSE IF ~NonEmpty(doc, Head(keys)) THEN LinesOver(doc, Tail(keys))
    ELSE Head(keys) \o <<":", " ">> \o HeaderOf(doc, Head(keys)).v
         \o (IF \E i \in 2..Len(keys) : NonEmpty(doc, keys[i]) THEN <<Newline>> ELSE <<>>)
         \o LinesOver(doc, Tail(keys))
SameOver(d, e, keys) == \A i \in 1..Len(keys) : HeaderOf(d, keys[i]) = HeaderOf(e, keys[i])

\* what C8 says of a read of the session, for a given list of fixed keys:
\* absent iff no document is stored or no fixed key is non-empty; else the
\* handle of exactly the non-empty fixed keys in order; and every document
\* equal on the fixed keys yields the same handle
DerivedFrom(keys) ==
    (last.route = "get_session" /\ (file = NoFile \/ load_headers(file) \in SessionDocs))
    => /\ ~last.raised
       /\ last.body = PyNone
          <=> (file = NoFile
               \/ \A i \in 1..Len(keys) : ~NonEmpty(load_headers(file), keys[i]))
       /\ last.body # PyNone => last.body = setup(LinesOver(load_headers(file), keys))
       /\ file # NoFile
          => \A d \in SessionDocs :
                SameOver(d, load_headers(file), keys) => HandleOf(d) = last.body

EightKeys ==
    << S("authorization"), S("x-goog-visitor-id"), S("x-origin"),
       S("x-youtube-client-name"), S("x-youtube-client-version"), S("user-agent"),
       S("accept-language"), S("cookie") >>
NineKeys ==
    << S("authorization"), S("x-goog-authuser"), S("x-goog-visitor-id"), S("x-origin"),
       S("x-youtube-client-name"), S("x-youtube-client-version"), S("user-agent"),
       S("accept-language"), S("cookie") >>

\* C8 as stated, with the eight keys it lists (authorization, visitor id,
\* origin, client name, client version, user agent, language, cookie): the
\* session is absent iff no document is stored or none of them is non-empty,
\* and is else built from exactly the non-empty ones in that order, whatever
\* the other headers hold.
\* It fails on x-goog-authuser, which the code reads second.
C8_DerivedFromEightKeys == DerivedFrom(EightKeys)

\* C8, amended: the same with the nine keys the code reads, x-goog-authuser
\* second: absent iff no document is stored or none of the nine is non-empty;
\* else the handle is built from exactly the non-empty ones in the fixed
\* order; documents equal on the nine keys yield the same handle and no other
\* header has an influence.
C8_DerivedFromNineKeys == DerivedFrom(NineKeys)

\* C8's case: a document with an unread header, an empty authorization and
\* two usable keys stored out of order was read
C8_Witness ==
    /\ last.route = "get_session"
    /\ load_headers(file) \in SessionDocs
    /\ HeaderOf(load_headers(file), S("x-extra")) = Str("a")
    /\ HeaderOf(load_headers(file), S("authorization")) = PyStr(<<>>)
    /\ last.body = setup(<<"x-goog-authuser", ":", " ", "a", Newline,
                           "cookie", ":", " ", "b">>)
    /\ cache = Cached(last.body)

\* the states of the file C9 lists: missing, unreadable, not valid JSON, valid
\* JSON that is no object, an object whose headers member is no mapping
HeadersMember(v) == DictGet(v, S("headers"))
NotADocument(f) ==
    \/ ~f.exists
    \/ ~f.readable
    \/ ~json_load(f.text).ok
    \/ ~IsDict(json_load(f.text).v)
    \/ ~IsDict(HeadersMember(json_load(f.text).v))

\* C9: load and get_session never raise, and for a missing file, an unreadable
\* file, content that is not valid JSON and valid JSON that is no well-formed
\* document (no object, or a headers member that is no mapping) both yield
\* absent.
\* The code breaks it: get_session raises AttributeError on truthy JSON that
\* is no object and on a truthy headers member that is no mapping.
C9_NeverRaises ==
    (last.route \in {"load", "get_session"} /\ NotADocument(file))
    => (~last.raised /\ last.body = PyNone)

\* ------------------------------------------------------------------------
\* Claims about the credential store (SpecStore)
\* ------------------------------------------------------------------------
\* C10: if save(doc) has reported success, a load with no save or clear in
\* between returns a document equal to doc.
C10_RoundTrip ==
    (last.route = "load" /\ stored.set) => (~last.raised /\ last.body = stored.doc)

\* C10's case: a document whose header holds a backslash and a quote was
\* saved over another file and loaded back
C10_Witness ==
    /\ last.route = "load"
    /\ stored.set
    /\ stored.doc = arg
    /\ HeaderOf(arg, S("cookie")) = PyStr(<<Backslash, Quote>>)
    /\ last.body = arg

\* ------------------------------------------------------------------------
\* Claims about a load during a save (SpecOverlap)
\* ------------------------------------------------------------------------
\* C11: a load that overlaps a save returns the complete previous document
\* (absent if there was none) or the complete new one, never a partial one and
\* never absent when a document existed before the save.
\* The code breaks it: open(.., "w") empties the file before the text is
\* written, and a load in between returns absent.
C11_LoadSeesWholeDocument ==
    last.route = "load"
    => (last.body = stored.doc \/ (pc # "idle" /\ last.body = arg))

\* ------------------------------------------------------------------------
\* Claims about validate (SpecValidate)
\* ------------------------------------------------------------------------
\* the dict records among the first five of a history, in its order
RECURSIVE DictsOf(_)
DictsOf(rows) ==
    IF rows = <<>> THEN <<>>
    ELSE (IF Head(rows).t = "dict" THEN <<Head(rows)>> ELSE <<>>) \o DictsOf(Tail(rows))
FirstFive(rows) == [i \in 1..(IF Len(rows) < 5 THEN Len(rows) ELSE 5) |-> rows[i]]
TitleShown(record) ==
    IF DictGet(record, S("title")) = PyNone THEN Str("Unknown")
    ELSE DictGet(record, S("title"))
SampleOf(body) == DictGet(body, S("sample")).v

ValidateAnswered ==
    last.route = "validate" /\ last.tok = ytm_client_token /\ last.via \in {"handler", "pool"}

\* C13: an authorized validate always answers 200: ok=false "not connected"
\* when it is answered without a call (no session); ok=false "no history"
\* when the upstream call returned nothing or raised; ok=true with a sample of
\* at most 5 entries, those of the first 5 upstream records, in upstream
\* order, when the history is not empty.
\* The code breaks it: when the stored file is valid JSON that is no document,
\* _make_yt raises at line 103 and the request is answered 500.
C13_ValidateAlways200 ==
    ValidateAnswered =>
        /\ last.status = 200
        /\ last.via = "handler" => last.body = SimpleResponse(FALSE, NotConnected)
        /\ (last.via = "pool" /\ (last.up.raised \/ last.up.rows = <<>>))
           => last.body = SimpleResponse(FALSE, NoHistory)
        /\ (last.via = "pool" /\ ~last.up.raised /\ last.up.rows # <<>>)
           => /\ DictGet(last.body, S("ok")) = PyBool(TRUE)
              /\ Len(SampleOf(last.body)) <= 5
              /\ Len(SampleOf(last.body)) = Len(DictsOf(FirstFive(last.up.rows)))
              /\ \A i \in 1..Len(SampleOf(last.body)) :
                    DictGet(SampleOf(last.body)[i], S("title"))
                    = TitleShown(DictsOf(FirstFive(last.up.rows))[i])

\* ------------------------------------------------------------------------
\* Claims about the dispatch pool (SpecPool, SpecPoolFair)
\* ------------------------------------------------------------------------
Queued == {i \in Slots : calls[i].st = "queued"}
InQueue == {queue[k] : k \in DOMAIN queue}

\* C14: at most 4 calls execute in the pool at any moment; a call submitted
\* is queued, stays queued until it starts (it is never dropped or run by the
\* handler), and starts only as the oldest queued call when fewer than 4 are
\* executing.
C14_AtMostFourExecuting ==
    /\ [](Cardinality(Running) <= max_workers /\ Queued = InQueue /\ Len(queue) = Cardinality(Queued))
    /\ [][/\ (RequestStep /\ last'.via = "suspended")
             => \E i \in Slots : /\ calls[i].st = "free"
                                 /\ calls'[i].st = "queued"
                                 /\ queue' = Append(queue, i)
          /\ \A i \in Slots :
                /\ calls[i].st = "queued" => calls'[i].st \in {"queued", "running"}
                /\ (calls[i].st = "queued" /\ calls'[i].st = "running")
                   => (Cardinality(Running) < max_workers /\ i = Head(queue))]_vars

\* C14's case: four calls executing, a fifth submitted and waiting
C14_Witness ==
    /\ Cardinality(Running) = 4
    /\ Len(queue) = 1
    /\ last = Suspended("library", ytm_client_token)

\* C19: with any number of calls outstanding, all 4 workers hung included,
\* every request that does not dispatch can still be handled (ingest,
\* disconnect, a 401 reply, health), and a third-party call is made by a pool
\* worker only: a handler step queues the call, and a result appears only for
\* a call that was running on a worker.
C19_LoopNeverBlocked ==
    /\ [](/\ ENABLED health_check
          /\ ENABLED get_library(AbsentToken)
          /\ ENABLED disconnect(ytm_client_token, "ok")
          /\ ENABLED ingest_headers(ytm_client_token, DocB, "ok", 0))
    /\ [][\A i \in Slots :
            /\ (calls'[i].st = "done" /\ calls[i].st # "done") => calls[i].st = "running"
            /\ (calls'[i].st = "running" /\ calls[i].st # "running")
               => (calls[i].st = "queued" /\ last' = last)
            /\ RequestStep => (calls'[i].up = calls[i].up /\ calls'[i].out = calls[i].out)]_vars

\* C19's case: all four workers hung, a call waiting, and a health request
\* answered
C19_Witness ==
    /\ Cardinality(Hung) = 4
    /\ queue # <<>>
    /\ last.route = "health"
    /\ last.status = 200

\* C20: under fair scheduling with at most 3 calls hung forever, every
\* dispatched call eventually starts on a worker, and every dispatched call
\* that does not hang is eventually answered (its slot is released by the
\* resumed handler); a hung call stays exactly as it is, running on its one
\* worker, for ever.
C20_OthersProgress ==
    /\ \A i \in 1..PoolSlots :
          /\ (calls[i].st = "queued") ~> (calls[i].st = "running")
          /\ (calls[i].st # "free") ~> (calls[i].st = "free" \/ calls[i].hang)
    /\ [](Hung \subseteq Running /\ Cardinality(Running) <= max_workers)
    /\ [][\A i \in Slots : calls[i].hang => calls'[i] = calls[i]]_vars

\* C20's case: three workers hung and every other request answered through
\* the one remaining worker
C20_Witness ==
    /\ Cardinality(Hung) = max_workers - 1
    /\ Cardinality(FreeSlots) = PoolSlots - (max_workers - 1)
    /\ last.via = "pool"

\* ------------------------------------------------------------------------
\* utils_service.slugify and the /utils/slug route
\* ------------------------------------------------------------------------
MaxTextLen == 5
\* [a-z0-9], the characters _slug_re leaves alone
SlugAlnum ==
    {"a", "b", "c", "d", "e", "f", "g", "h", "i", "j", "k", "l", "m", "n", "o", "p", "q",
     "r", "s", "t", "u", "v", "w", "x", "y", "z",
     "0", "1", "2", "3", "4", "5", "6", "7", "8", "9"}
PySpace == {" ", Newline}
\* the characters the texts are made of: lowercase and uppercase letters, a
\* digit, whitespace, '-', punctuation, a non-ASCII uppercase letter
TextAlphabet == {"a", "n", "A", "7", " ", "-", "!", "É"}
Texts == UNION {[1..k -> TextAlphabet] : k \in 0..MaxTextLen}

\* str.lower(), character by character
LowerChar(c) ==
    CASE c = "A" -> "a"
      [] c = "N" -> "n"
      [] c = "É" -> NonAscii
      [] OTHER -> c
Lower(text) == [i \in DOMAIN text |-> LowerChar(text[i])]

\* str.strip(chars): leading and trailing characters of the set removed
RECURSIVE LStrip(_, _)
LStrip(text, chars) ==
    IF text # <<>> /\ Head(text) \in chars THEN LStrip(Tail(text), chars) ELSE text
RECURSIVE RStrip(_, _)
RStrip(text, chars) ==
    IF text # <<>> /\ text[Len(text)] \in chars
    THEN RStrip(SubSeq(text, 1, Len(text) - 1), chars)
    ELSE text
Strip(text, chars) == RStrip(LStrip(text, chars), chars)

\* _slug_re.sub("-", s): every maximal run of characters outside [a-z0-9]
\* replaced by one '-'
RECURSIVE SlugSub(_, _)
SlugSub(text, i) ==
    IF i > Len(text) THEN <<>>
    ELSE IF text[i] \in SlugAlnum THEN <<text[i]>> \o SlugSub(text, i + 1)
    ELSE IF i > 1 /\ text[i - 1] \notin SlugAlnum THEN SlugSub(text, i + 1)
    ELSE <<"-">> \o SlugSub(text, i + 1)

\* a slugify that strips '-' on the left only (the fault C15 excludes)
StripDash_left_only(text) == LStrip(text, {"-"})
\* .strip("-")
StripDash(text) == Strip(text, {"-"})
\* s or "n-a"
OrNA(text) == IF text # <<>> THEN text ELSE <<"n", "-", "a">>
slugify(text) == OrNA(StripDash(SlugSub(Lower(Strip(text, PySpace)), 1)))

InitSlug ==
    /\ arg \in {PyStr(text) : text \in Texts}
    /\ file = NoFile
    /\ cache = EmptyCache
    /\ calls = [i \in 1..MaxInFlight |-> FreeSlot]
    /\ queue = <<>>
    /\ last = NoResponse
    /\ fresh = Unset
    /\ gone = FALSE
    /\ stored = Unset
    /\ reads = 0
    /\ pc = "idle"
\* POST /utils/slug with body {"text": arg}
post_slug ==
    /\ last' = Handled("slug", "", 200, PyDict(<< <<S("slug"), PyStr(slugify(arg.v))>> >>))
    /\ UNCHANGED <<file, cache, calls, queue, fresh, gone, arg, stored, reads, pc>>
NextSlug == post_slug
SpecSlug == InitSlug /\ [][NextSlug]_vars

\* ------------------------------------------------------------------------
\* Claims about slugify (SpecSlug)
\* ------------------------------------------------------------------------
SlugOf == DictGet(last.body, S("slug")).v
Lowered == Lower(arg.v)
HasAlnum(text) == \E i \in DOMAIN text : text[i] \in SlugAlnum
\* position i of the lowercased text is kept: an alphanumeric character, or
\* the first character of a run of others that lies between two alphanumerics
KeptAt(text, i) ==
    \/ text[i] \in SlugAlnum
    \/ /\ i > 1
       /\ text[i - 1] \in SlugAlnum
       /\ \E j \in DOMAIN text : j > i /\ text[j] \in SlugAlnum
RECURSIVE RunsJoined(_, _)
RunsJoined(text, i) ==
    IF i > Len(text) THEN <<>>
    ELSE IF ~KeptAt(text, i) THEN RunsJoined(text, i + 1)
    ELSE <<IF text[i] \in SlugAlnum THEN text[i] ELSE "-">> \o RunsJoined(text, i + 1)
WellFormedSlug(slug) ==
    /\ slug # <<>>
    /\ \A i \in DOMAIN slug : slug[i] \in SlugAlnum \cup {"-"}
    /\ slug[1] # "-"
    /\ slug[Len(slug)] # "-"
    /\ \A i \in 1..(Len(slug) - 1) : ~(slug[i] = "-" /\ slug[i + 1] = "-")
NA == <<"n", "-", "a">>

\* C15 (as stated): the slug is well formed, it is the alphanumeric runs of
\* the lowercased text joined by single '-', and it is "n-a" exactly when the
\* lowercased text has no character of [a-z0-9].
C15_NAExactlyWhenNoAlnum ==
    last.route = "slug"
    => /\ WellFormedSlug(SlugOf)
       /\ HasAlnum(Lowered) => SlugOf = RunsJoined(Lowered, 1)
       /\ SlugOf = NA <=> ~HasAlnum(Lowered)

\* C15 (amended): the slug is well formed, it is the alphanumeric runs of the
\* lowercased text joined by single '-', and it is "n-a" whenever the
\* lowercased text has no character of [a-z0-9] (a text whose runs are "n"
\* and "a" gives "n-a" as well).
C15_SlugShape ==
    last.route = "slug"
    => /\ WellFormedSlug(SlugOf)
       /\ HasAlnum(Lowered) => SlugOf = RunsJoined(Lowered, 1)
       /\ ~HasAlnum(Lowered) => SlugOf = NA
       /\ SlugOf = NA => (~HasAlnum(Lowered) \/ RunsJoined(Lowered, 1) = NA)

\* C15's case: a text with uppercase letters, surrounding whitespace and a run
\* of two separators between its words has been slugified
C15_Witness ==
    /\ last.route = "slug"
    /\ arg.v = <<" ", "A", "!", " ", "7">>
    /\ SlugOf = <<"a", "-", "7">>

\* ------------------------------------------------------------------------
\* code_service.generate_code and the /codes/one route
\* ------------------------------------------------------------------------
MaxCodeLen == 2
BASE_ALPHABET ==
    <<"2", "3", "4", "5", "6", "7", "8", "9", "A", "B", "C", "D", "E", "F", "G", "H",
      "J", "K", "L", "M", "N", "P", "Q", "R", "S", "T", "U", "V", "W", "X", "Y", "Z">>
SPECIALS == <<"!", "@", "#", "$", "%", "&", "*", "?">>
DEFAULT_ALPHABET == BASE_ALPHABET \o SPECIALS

\* a generator whose loop stops one character early (the fault C16 excludes)
CodesOf_one_short(length, alphabet) ==
    {[k \in 1..(length - 1) |-> alphabet[picks[k]]] :
        picks \in [1..(length - 1) -> 1..Len(alphabet)]}
\* "".join(secrets.choice(alphabet) for _ in range(length)): one draw of a
\* position of the alphabet per character
CodesOf(length, alphabet) ==
    {[k \in 1..length |-> alphabet[picks[k]]] : picks \in [1..length -> 1..Len(alphabet)]}
\* generate_code(length, alphabet): every outcome it can have; secrets.choice
\* raises IndexError on an empty alphabet
generate_code(length, alphabet) ==
    IF length > 0 /\ alphabet = <<>>
    THEN {Raised}
    ELSE {Returned(PyStr(code)) : code \in CodesOf(length, alphabet)}

Lengths == (0 - 1)..MaxCodeLen
Alphabets == {<<>>, <<"x">>, <<"a", "b">>, <<"a", "b", "a">>, DEFAULT_ALPHABET}
InitCode ==
    /\ arg \in [code_length : Lengths, code_alphabet : Alphabets]
    /\ file = NoFile
    /\ cache = EmptyCache
    /\ calls = [i \in 1..MaxInFlight |-> FreeSlot]
    /\ queue = <<>>
    /\ last = NoResponse
    /\ fresh = Unset
    /\ gone = FALSE
    /\ stored = Unset
    /\ reads = 0
    /\ pc = "idle"
\* generate_code(length=arg.code_length, alphabet=arg.code_alphabet) called
\* directly, once for the settings drawn
call_generate_code ==
    /\ last = NoResponse
    /\ \E r \in generate_code(arg.code_length, arg.code_alphabet) :
          last' = Called("generate_code", r.raised, r.v)
    /\ UNCHANGED <<file, cache, calls, queue, fresh, gone, arg, stored, reads, pc>>
\* cfg.code_alphabet or DEFAULT_ALPHABET
OrDefault(alphabet) == IF alphabet # <<>> THEN alphabet ELSE DEFAULT_ALPHABET
\* GET /codes/one with the settings arg, once for the settings drawn
get_one_code ==
    /\ last = NoResponse
    /\ \E r \in generate_code(arg.code_length, OrDefault(arg.code_alphabet)) :
          last' = Handled("codes/one", "", 200, PyDict(<< <<S("code"), r.v>> >>))
    /\ UNCHANGED <<file, cache, calls, queue, fresh, gone, arg, stored, reads, pc>>
NextCode == call_generate_code \/ get_one_code
SpecCode == InitCode /\ [][NextCode]_vars

\* ------------------------------------------------------------------------
\* Claims about generate_code (SpecCode)
\* ------------------------------------------------------------------------
Members(alphabet) == {alphabet[i] : i \in DOMAIN alphabet}
CodeOver(code, length, alphabet) ==
    /\ code.t = "str"
    /\ Len(code.v) = length
    /\ \A i \in DOMAIN code.v : code.v[i] \in Members(alphabet)

\* C16: for a length n >= 0 and a non-empty alphabet, generate_code returns
\* (never raises) a string of exactly n characters, each a member of the
\* alphabet; /codes/one answers with such a code for the configured length
\* and alphabet, the default alphabet standing in for an empty one.
C16_CodeOverAlphabet ==
    /\ (last.route = "generate_code" /\ arg.code_length >= 0 /\ arg.code_alphabet # <<>>)
       => /\ ~last.raised
          /\ CodeOver(last.body, arg.code_length, arg.code_alphabet)
    /\ (last.route = "codes/one" /\ arg.code_length >= 0)
       => /\ last.status = 200
          /\ CodeOver(DictGet(last.body, S("code")), arg.code_length,
                      IF arg.code_alphabet = <<>> THEN DEFAULT_ALPHABET
                      ELSE arg.code_alphabet)

\* C16's case: /codes/one with an empty configured alphabet answered with a
\* code of the configured length holding a special character of the default
\* alphabet
C16_Witness ==
    /\ last.route = "codes/one"
    /\ arg.code_alphabet = <<>>
    /\ arg.code_length = MaxCodeLen
    /\ Len(DictGet(last.body, S("code")).v) = MaxCodeLen
    /\ DictGet(last.body, S("code")).v[1] = "?"

\* ------------------------------------------------------------------------
\* Claims about the number of loads (SpecSession)
\* ------------------------------------------------------------------------
\* C17: between two invalidations the store is loaded at most once: the first
\* get_session loads it and leaves its outcome (a handle or absent) in the
\* cache, and no later get_session loads it again.
C17_LoadedAtMostOnce ==
    /\ reads <= 1
    /\ reads >= 1 => cache.hit

\* ------------------------------------------------------------------------
\* Claims about the stored document over a sequence of requests (Spec)
\* ------------------------------------------------------------------------
\* C18: a successful ingest leaves in the store exactly the text of its own
\* payload, whatever was there before; a successful disconnect leaves no
\* document; and nothing but an authorized ingest or disconnect changes the
\* store. So after a run of successful ingests and disconnects the store holds
\* the last ingested payload alone, or nothing when a disconnect came last.
C18_LastWriteWins ==
    /\ [](/\ last = Handled("ingest", ytm_client_token, 200, Str("OK"))
             => (fresh.set /\ file = FileOf(json_dump(fresh.doc)))
          /\ (last.via = "handler" /\ last.route = "disconnect" /\ last.status = 200)
             => file = NoFile)
    /\ [][file' # file
          => /\ last'.via = "handler"
             /\ last'.route \in {"ingest", "disconnect"}
             /\ last'.tok = ytm_client_token]_vars

\* C18's case: DocB ingested while a call made with DocA's session is still
\* waiting; the store holds DocB alone
C18_Witness ==
    /\ last = Handled("ingest", ytm_client_token, 200, Str("OK"))
    /\ fresh = Ingested(DocB)
    /\ file = FileOf(json_dump(DocB))
    /\ \E i \in Slots : calls[i].st # "free" /\ calls[i].yt = YTMusic(HandleOf(DocA))

\* ------------------------------------------------------------------------
\* get_history followed from _make_yt to its response
\* ------------------------------------------------------------------------
\* a second track, different from Track in every field
Track2 ==
    PyDict(<< <<S("videoId"), Str("v2")>>, <<S("title"), Str("T2")>>,
              <<S("artists"), PyList(<<PyDict(<< <<S("name"), Str("A2")>> >>),
                                       Str("feat"),
                                       PyDict(<< <<S("name"), Str("A3")>> >>)>>)>>,
              <<S("album"), PyDict(<< <<S("name"), Str("L2")>> >>)>>,
              <<S("thumbnails"), PyList(<<PyDict(<< <<S("url"), Str("h2")>> >>),
                                          PyDict(<< <<S("url"), Str("h3")>> >>)>>)>>,
              <<S("played"), Str("Yesterday")>> >>)
\* a record whose thumbnails are no list of dicts: .get on it raises
Broken == PyDict(<< <<S("videoId"), Str("v3")>>, <<S("thumbnails"), Str("x")>> >>)

\* one field of an upstream record: there with a value, missing, null, or
\* there with the empty value of its type
FieldChoices == {"full", "absent", "none", "empty"}
FieldItem(key, full, empty, c) ==
    CASE c = "full" -> << <<key, full>> >>
      [] c = "none" -> << <<key, PyNone>> >>
      [] c = "empty" -> << <<key, empty>> >>
      [] OTHER -> <<>>
SparseRecord(c) ==
    PyDict(FieldItem(S("videoId"), Str("v1"), PyStr(<<>>), c[1])
           \o FieldItem(S("title"), Str("T1"), PyStr(<<>>), c[2])
           \o FieldItem(S("artists"), PyList(<<PyDict(<< <<S("name"), Str("A1")>> >>)>>),
                        PyList(<<>>), c[3])
           \o FieldItem(S("album"), PyDict(<< <<S("name"), Str("L1")>> >>), PyDict(<<>>), c[4])
           \o FieldItem(S("thumbnails"), PyList(<<PyDict(<< <<S("url"), Str("h1")>> >>)>>),
                        PyList(<<>>), c[5])
           \o FieldItem(S("played"), Str("Today"), PyStr(<<>>), c[6]))
SparseRecords == {SparseRecord(c) : c \in [1..6 -> FieldChoices]}

\* what yt.get_history() returns: lists of tracks, sparse records and items
\* that are no dict, and lists of one record with any fields missing
MaxHistLen == 3
HistoryItems == {Track, Track2, Bare, Junk}
HistoryLists ==
    UNION {[1..k -> HistoryItems] : k \in 0..MaxHistLen}
    \cup {<<Track, Broken>>, <<Broken, Track2, Track>>}
\* Query(50, ge=1, le=200)
HistoryLimits == {1, MaxHistLen - 1, 200}

\* the input: what the store holds, what yt.get_history() will do, and the
\* limit of the requests
InitHistory ==
    /\ arg \in [up : {UpRaise} \cup {UpReturn(h) : h \in HistoryLists},
                limit : HistoryLimits]
               \cup [up : {UpReturn(<<r>>) : r \in SparseRecords}, limit : {1}]
    /\ file \in StoredBefore
    /\ cache = EmptyCache
    /\ calls = [i \in 1..MaxInFlight |-> FreeSlot]
    /\ queue = <<>>
    /\ last = NoResponse
    /\ fresh = Unset
    /\ gone = FALSE
    /\ stored = Unset
    /\ reads = 0
    /\ pc = "idle"

\* history requests with a valid token and the limit arg.limit, each up to its
\* await and from the pool's result to its response
NextHistory ==
    \/ get_history(ytm_client_token, arg.limit)
    \/ \E slot \in Slots : WorkerStart(slot)
    \/ \E slot \in Slots : WorkerFinish(slot, arg.up)
    \/ \E slot \in Slots : history_resume(slot)
    \/ Meanwhile

SpecHistory == InitHistory /\ [][NextHistory]_vars

\* ------------------------------------------------------------------------
\* Claims about the history response (SpecHistory)
\* ------------------------------------------------------------------------
FirstOf(rows, n) == [i \in 1..(IF Len(rows) < n THEN Len(rows) ELSE n) |-> rows[i]]
HistoryOk == last.via = "pool" /\ last.route = "history" /\ last.status = 200

\* C21: a 200 history response for limit L holds at most L records: the
\* normalizations of the dict records among the first L upstream items, one
\* for one and in upstream order.
C21_FirstLNormalized ==
    HistoryOk =>
        /\ last.body.t = "list"
        /\ Len(last.body.v) <= arg.limit
        /\ Len(last.body.v) = Len(DictsOf(FirstOf(last.up.rows, arg.limit)))
        /\ \A i \in 1..Len(last.body.v) :
              /\ last.body.v[i] = NormalizeItem(DictsOf(FirstOf(last.up.rows, arg.limit))[i])
              /\ DictGet(last.body.v[i], S("videoId"))
                 = GetDefault(DictsOf(FirstOf(last.up.rows, arg.limit))[i], S("videoId"),
                              PyStr(<<>>))

\* C21's case: three upstream records for limit 2: the response holds the
\* first two, in upstream order
C21_Witness ==
    /\ HistoryOk
    /\ arg.limit = 2
    /\ last.up = UpReturn(<<Track2, Track, Track2>>)
    /\ Len(last.body.v) = 2
    /\ DictGet(last.body.v[1], S("videoId")) = Str("v2")
    /\ DictGet(last.body.v[2], S("videoId")) = Str("v1")

\* the keys of a dict, in order
KeysOf(d) == [i \in 1..Len(d.v) |-> d.v[i][1]]
HasKey(d, key) == \E i \in 1..Len(d.v) : d.v[i][1] = key
SixFields ==
    <<S("videoId"), S("title"), S("artists"), S("album"), S("thumbnail"), S("played")>>
\* the value that stands for an upstream field that is not there
Placeholder(key) ==
    CASE key = S("title") -> Str("Unknown")
      [] key = S("artists") -> PyList(<<>>)
      [] OTHER -> PyStr(<<>>)
\* the upstream field an output field is made from
UpstreamKey(key) == IF key = S("thumbnail") THEN S("thumbnails") ELSE key
SparseInput == ~last.up.raised /\ Len(last.up.rows) = 1 /\ last.up.rows[1] \in SparseRecords

\* C22: for an upstream record with any of its six fields missing, null or
\* empty, the history request answers 200 with one record of exactly the six
\* fixed fields, and every field missing upstream holds its placeholder
\* ("Unknown" for the title, an empty list of artists, "" otherwise).
C22_SparseRecordNormalized ==
    (last.via = "pool" /\ last.route = "history" /\ SparseInput)
    => /\ last.status = 200
       /\ Len(last.body.v) = 1
       /\ KeysOf(last.body.v[1]) = SixFields
       /\ \A k \in 1..6 :
             ~HasKey(last.up.rows[1], UpstreamKey(SixFields[k]))
             => DictGet(last.body.v[1], SixFields[k]) = Placeholder(SixFields[k])

\* C22's case: a record with only a null title and an empty list of
\* thumbnails has been normalized
C22_Witness ==
    /\ HistoryOk
    /\ last.up = UpReturn(<<PyDict(<< <<S("title"), PyNone>>,
                                    <<S("thumbnails"), PyList(<<>>)>> >>)>>)
    /\ last.body.v[1] = PyDict(<< <<S("videoId"), PyStr(<<>>)>>, <<S("title"), PyNone>>,
                                 <<S("artists"), PyList(<<>>)>>, <<S("album"), PyStr(<<>>)>>,
                                 <<S("thumbnail"), PyStr(<<>>)>>, <<S("played"), PyStr(<<>>)>> >>)

\* ------------------------------------------------------------------------
\* Claims about invalidation (SpecSession)
\* ------------------------------------------------------------------------
Once(c) == cache_clear(c)
Twice(c) == cache_clear(cache_clear(c))

\* C23: from every state of the cache and the store, invalidating twice
\* leaves the cache that invalidating once leaves (the empty one) and the
\* next get_session then has the same outcome; an invalidation leaves the
\* stored document alone, and one that follows another changes nothing.
C23_InvalidateIdempotent ==
    /\ [](/\ Twice(cache) = Once(cache)
          /\ get_cached_auth_string(Twice(cache), file)
             = get_cached_auth_string(Once(cache), file))
    /\ [][last'.route = "invalidate" => (file' = file /\ cache' = EmptyCache)]_vars
    /\ [][(last.route = "invalidate" /\ last'.route = "invalidate")
          => UNCHANGED <<file, cache, last>>]_vars

\* C23's case: the cache was filled from a stored document and has been
\* invalidated; the document is still there
C23_Witness ==
    /\ last.route = "invalidate"
    /\ cache = EmptyCache
    /\ reads = 0
    /\ load_headers(file) \in SessionDocs
    /\ Truthy(get_cached_auth_string(Twice(cache), file).v)

\* ------------------------------------------------------------------------
\* Claims about a failed ingest (Spec)
\* ------------------------------------------------------------------------
\* C24: an authorized ingest answered 500 leaves the state as it was: load
\* returns the document it returned before the request and the cache holds
\* what it held.
\* The code breaks it: the file is truncated when it is opened, so a write
\* that fails after that leaves no document, or a piece of the new one.
C24_FailedIngestChangesNothing ==
    [][(last'.via = "handler" /\ last'.route = "ingest" /\ last'.status = 500)
        => (load_headers(file') = load_headers(file) /\ cache' = cache)]_vars

\* ------------------------------------------------------------------------
\* Claims about where the session is read (Spec)
\* ------------------------------------------------------------------------
\* a worker or a resumed handler took a step
Advanced == \E i \in Slots : calls[i].st # "free" /\ calls'[i].st # calls[i].st

\* C25: a validate, history, library or search request that dispatches reads
\* the session once, in its handler step: the call it queues carries the
\* client made from that read. The client of a call never changes while the
\* call is outstanding, whatever is ingested or disconnected meanwhile, and
\* ingest and disconnect can be handled in every state. Steps of the workers
\* and of resumed handlers leave cache and store alone: the cache changes only
\* in a handler step, cleared by an ingest or filled on a miss.
C25_SessionReadOnRequestThread ==
    /\ [](/\ ENABLED ingest_headers(ytm_client_token, DocB, "ok", 0)
          /\ ENABLED disconnect(ytm_client_token, "ok"))
    /\ [][/\ (RequestStep /\ last'.via = "suspended")
             => /\ cache' = make_yt(cache, file).cache
                /\ \E i \in Slots : /\ calls[i].st = "free"
                                    /\ calls'[i].st = "queued"
                                    /\ calls'[i].yt = make_yt(cache, file).yt
          /\ \A i \in Slots :
                (calls[i].st # "free" /\ calls'[i].st # "free") => calls'[i].yt = calls[i].yt
          /\ Advanced => (cache' = cache /\ file' = file)
          /\ cache' # cache
             => /\ last'.via \in {"handler", "suspended"}
                /\ IF last'.route = "ingest"
                   THEN cache' = EmptyCache
                   ELSE /\ last'.route \in SessionRoutes
                        /\ ~cache.hit
                        /\ cache' = get_cached_auth_string(cache, file).cache]_vars

\* C25's case: a disconnect was handled while a call made with DocB's session
\* is running on a worker
C25_Witness ==
    /\ last = Handled("disconnect", ytm_client_token, 200, Deleted)
    /\ file = NoFile
    /\ \E i \in Slots : calls[i].st = "running" /\ calls[i].yt = YTMusic(HandleOf(DocB))
====
